---- MODULE Spec2Model ----
(***************************************************************************)
(* deepchem/feat/smiles_tokenizer.py: BasicSmilesTokenizer, load_vocab and  *)
(* SmilesTokenizer as a state machine.                                      *)
(*                                                                         *)
(* A Python str is a sequence of one-character strings, a Python list is a  *)
(* sequence, an OrderedDict is a sequence of <<key, value>> pairs kept in   *)
(* insertion order.                                                         *)
(***************************************************************************)
EXTENDS Integers, Sequences, FiniteSets, TLC

VARIABLES
  vocab_file,             \* the file at the path given to __init__: [isfile, lines]
  status,                 \* "new", "ready", "ValueError_no_file", "ValueError_max_empty"
  vocab,                  \* self.vocab: OrderedDict token -> index
  ids_to_tokens,          \* self.ids_to_tokens: OrderedDict index -> token
  highest_unused_index,   \* self.highest_unused_index
  op,                     \* the call whose result the caller holds ("idle": none)
  args,                   \* the arguments of that call
  ret,                    \* the value it returned
  written,                \* the lines save_vocabulary wrote
  warned                  \* whether save_vocabulary logged its warning

vars == <<vocab_file, status, vocab, ids_to_tokens, highest_unused_index,
          op, args, ret, written, warned>>

tokenizer_state == <<vocab_file, status, vocab, ids_to_tokens, highest_unused_index>>

----------------------------------------------------------------------------
(* Bounds of the model *)

MaxTextLen == 3      \* longest enumerated text given to BasicSmilesTokenizer.tokenize
MaxLines == 3        \* most lines of an enumerated vocabulary file
MaxIds == 2          \* longest enumerated id sequence
MaxPadLength == 5    \* largest enumerated padding target length

----------------------------------------------------------------------------
(* Python values *)

\* Python's None (the ids of a vocabulary are >= 0)
None == -1

Range(s) == {s[i] : i \in 1..Len(s)}

SeqsUpTo(S, n) == UNION {[1..k -> S] : k \in 0..n}

RECURSIVE concat(_)
\* "".join(tokens)
concat(tokens) ==
  IF tokens = <<>> THEN <<>> ELSE Head(tokens) \o concat(Tail(tokens))

RECURSIVE str_join(_, _)
\* sep.join(tokens)
str_join(sep, tokens) ==
  IF tokens = <<>> THEN <<>>
  ELSE IF Len(tokens) = 1 THEN tokens[1]
  ELSE tokens[1] \o sep \o str_join(sep, Tail(tokens))

RECURSIVE str_replace_from(_, _, _, _)
\* s.replace(old, new): the non-overlapping occurrences of old, left to right
str_replace_from(s, p, old, new) ==
  IF p > Len(s) THEN <<>>
  ELSE IF p + Len(old) - 1 <= Len(s) /\ SubSeq(s, p, p + Len(old) - 1) = old
       THEN new \o str_replace_from(s, p + Len(old), old, new)
       ELSE <<s[p]>> \o str_replace_from(s, p + 1, old, new)

str_replace(s, old, new) == str_replace_from(s, 1, old, new)

\* the characters str.strip() removes
Whitespace == {" ", "\n", "\t", "\r"}

RECURSIVE lstrip(_)
lstrip(s) ==
  IF s # <<>> /\ Head(s) \in Whitespace THEN lstrip(Tail(s)) ELSE s

RECURSIVE rstrip(_, _)
\* s.rstrip(chars)
rstrip(s, chars) ==
  IF s # <<>> /\ s[Len(s)] \in chars THEN rstrip(SubSeq(s, 1, Len(s) - 1), chars) ELSE s

\* s.strip()
strip(s) == rstrip(lstrip(s), Whitespace)

\* startswith comparing the first character only
startswith_first_char(s, prefix) ==
  s # <<>> /\ prefix # <<>> /\ s[1] = prefix[1]

\* s.startswith(prefix)
startswith(s, prefix) ==
  Len(s) >= Len(prefix) /\ SubSeq(s, 1, Len(prefix)) = prefix

\* list_repeat with the sign of n dropped
list_repeat_abs(x, n) == [i \in 1..(IF n < 0 THEN 0 - n ELSE n) |-> x]

\* [x] * n: the empty list when n <= 0
list_repeat(x, n) == [i \in 1..n |-> x]

----------------------------------------------------------------------------
(* OrderedDict *)

dict_keys(d) == [i \in 1..Len(d) |-> d[i][1]]

dict_values(d) == [i \in 1..Len(d) |-> d[i][2]]

dict_has(d, k) == \E i \in 1..Len(d) : d[i][1] = k

\* d.get(k, default)
dict_get(d, k, default) ==
  IF dict_has(d, k) THEN d[CHOOSE i \in 1..Len(d) : d[i][1] = k][2] ELSE default

\* dict_set that keeps the value of a key already present (setdefault)
dict_set_keep_first(d, k, v) ==
  IF dict_has(d, k) THEN d ELSE Append(d, <<k, v>>)

\* d[k] = v: a key already present keeps its position
dict_set(d, k, v) ==
  IF dict_has(d, k)
  THEN [i \in 1..Len(d) |-> IF d[i][1] = k THEN <<k, v>> ELSE d[i]]
  ELSE Append(d, <<k, v>>)

----------------------------------------------------------------------------
(* SMI_REGEX_PATTERN and BasicSmilesTokenizer *)

Digits == {"0", "1", "2", "3", "4", "5", "6", "7", "8", "9"}

\* the character at position p, "" past the end of the text
char_at(text, p) == IF p <= Len(text) THEN text[p] ELSE ""

RECURSIVE first_close(_, _)
\* the position of the first "]" at or after q, 0 when there is none
first_close(text, q) ==
  IF q > Len(text) THEN 0
  ELSE IF text[q] = "]" THEN q
  ELSE first_close(text, q + 1)

\* regex_match with the optional second letters lost (B|C in place of Br?|Cl?)
regex_match_single_letter(text, p) ==
  LET c == text[p]
      c1 == char_at(text, p + 1)
      c2 == char_at(text, p + 2)
      close == first_close(text, p + 1)
  IN  IF c = "[" /\ close >= p + 2 THEN close - p + 1
      ELSE IF c \in {"B", "C", "N", "O", "S", "P", "F", "I"} THEN 1
      ELSE IF c \in {"b", "c", "n", "o", "s", "p"} THEN 1
      ELSE IF c \in {"(", ")", ".", "="} THEN 1
      ELSE IF c = "\n" /\ c1 = "#" THEN 2
      ELSE IF c \in {"-", "+", "\\", "/", ":", "~", "@", "?"} THEN 1
      ELSE IF c = ">" THEN (IF c1 = ">" THEN 2 ELSE 1)
      ELSE IF c \in {"*", "$"} THEN 1
      ELSE IF c = "%" /\ c1 \in Digits /\ c2 \in Digits THEN 3
      ELSE IF c \in Digits THEN 1
      ELSE 0

\* The length of the match of SMI_REGEX_PATTERN that starts at position p, 0 when
\* no alternative matches there.  The alternatives are tried in the order of the
\* pattern.  The pattern is not compiled with re.VERBOSE, so the line break
\* between "=|" and "#|" belongs to the alternative: it is "\n#", not "#".
regex_match(text, p) ==
  LET c == text[p]
      c1 == char_at(text, p + 1)
      c2 == char_at(text, p + 2)
      close == first_close(text, p + 1)
  IN  IF c = "[" /\ close >= p + 2 THEN close - p + 1           \* \[[^\]]+]
      ELSE IF c = "B" THEN (IF c1 = "r" THEN 2 ELSE 1)          \* Br?
      ELSE IF c = "C" THEN (IF c1 = "l" THEN 2 ELSE 1)          \* Cl?
      ELSE IF c \in {"N", "O", "S", "P", "F", "I"} THEN 1
      ELSE IF c \in {"b", "c", "n", "o", "s", "p"} THEN 1
      ELSE IF c \in {"(", ")", ".", "="} THEN 1
      ELSE IF c = "\n" /\ c1 = "#" THEN 2                       \* \n#
      ELSE IF c \in {"-", "+", "\\", "/", ":", "~", "@", "?"} THEN 1
      ELSE IF c = ">" THEN (IF c1 = ">" THEN 2 ELSE 1)          \* >>?
      ELSE IF c \in {"*", "$"} THEN 1
      ELSE IF c = "%" /\ c1 \in Digits /\ c2 \in Digits THEN 3  \* \%[0-9]{2}
      ELSE IF c \in Digits THEN 1                               \* [0-9]
      ELSE 0

RECURSIVE regex_findall(_, _)
\* self.regex.findall(text) from position p: the matches left to right, each
\* search resuming where the last match ended; an unmatched character is skipped
regex_findall(text, p) ==
  IF p > Len(text) THEN <<>>
  ELSE LET n == regex_match(text, p)
       IN  IF n = 0 THEN regex_findall(text, p + 1)
           ELSE <<SubSeq(text, p, p + n - 1)>> \o regex_findall(text, p + n)

\* BasicSmilesTokenizer.tokenize
tokenize(text) == regex_findall(text, 1)

----------------------------------------------------------------------------
(* The special tokens of the tokenizer (the defaults of the base class) *)

unk_token == <<"[", "U", "N", "K", "]">>
sep_token == <<"[", "S", "E", "P", "]">>
pad_token == <<"[", "P", "A", "D", "]">>
cls_token == <<"[", "C", "L", "S", "]">>

unused_prefix == <<"[", "u", "n", "u", "s", "e", "d">>

----------------------------------------------------------------------------
(* load_vocab *)

RECURSIVE load_vocab_loop(_, _, _)
\* for index, token in enumerate(tokens): vocab[token.rstrip("\n")] = index
load_vocab_loop(tokens, index, d) ==
  IF index >= Len(tokens) THEN d
  ELSE load_vocab_loop(tokens, index + 1,
                       dict_set(d, rstrip(tokens[index + 1], {"\n"}), index))

\* load_vocab(vocab_file), given reader.readlines()
load_vocab(lines) == load_vocab_loop(lines, 0, <<>>)

----------------------------------------------------------------------------
(* SmilesTokenizer *)

\* [i for i, v in enumerate(self.vocab.keys()) if v.startswith("[unused")]
unused_indices(d) ==
  {i \in 0..(Len(d) - 1) : startswith(dict_keys(d)[i + 1], unused_prefix)}

\* max(xs) raises ValueError on an empty list
max_raises(xs) == xs = {}

py_max(xs) == CHOOSE m \in xs : \A x \in xs : x <= m

\* invert_vocab numbering the tokens by their position (enumerate) instead of
\* by their id
invert_vocab_by_position(d) == [i \in 1..Len(d) |-> <<i - 1, d[i][1]>>]

\* collections.OrderedDict([(ids, tok) for tok, ids in self.vocab.items()])
invert_vocab(d) == [i \in 1..Len(d) |-> <<d[i][2], d[i][1]>>]

\* vocab_size
vocab_size == Len(vocab)

\* vocab_list
vocab_list == dict_keys(vocab)

\* _tokenize
smiles_tokenize(text) == tokenize(text)

\* _convert_token_to_id without the fallback to the unknown token
convert_token_to_id_no_fallback(token) == dict_get(vocab, token, None)

\* _convert_token_to_id
convert_token_to_id(token) ==
  dict_get(vocab, token, dict_get(vocab, unk_token, None))

\* _convert_id_to_token reading the entry after the one asked for
convert_id_to_token_off_by_one(index) ==
  dict_get(ids_to_tokens, index + 1, unk_token)

\* _convert_id_to_token
convert_id_to_token(index) == dict_get(ids_to_tokens, index, unk_token)

\* convert_tokens_to_string
convert_tokens_to_string(tokens) ==
  strip(str_replace(str_join(<<" ">>, tokens), <<" ", "#", "#">>, <<>>))

\* the ids of the special tokens: the base class converts the token with
\* _convert_token_to_id
cls_token_id == convert_token_to_id(cls_token)
sep_token_id == convert_token_to_id(sep_token)
pad_token_id == convert_token_to_id(pad_token)

\* add_special_tokens_ids_single_sequence
add_special_tokens_ids_single_sequence(token_ids) ==
  <<cls_token_id>> \o token_ids \o <<sep_token_id>>

\* add_special_tokens_single_sequence
add_special_tokens_single_sequence(tokens) ==
  <<cls_token>> \o tokens \o <<sep_token>>

\* add_special_tokens_ids_sequence_pair without the closing separator
add_special_tokens_ids_sequence_pair_open(token_ids_0, token_ids_1) ==
  <<cls_token_id>> \o token_ids_0 \o <<sep_token_id>> \o token_ids_1

\* add_special_tokens_ids_sequence_pair
add_special_tokens_ids_sequence_pair(token_ids_0, token_ids_1) ==
  LET sep == <<sep_token_id>>
      cls == <<cls_token_id>>
  IN  cls \o token_ids_0 \o sep \o token_ids_1 \o sep

\* add_padding_tokens that ignores right
add_padding_tokens_right_only(token_ids, length, right) ==
  token_ids \o list_repeat(pad_token_id, length - Len(token_ids))

\* add_padding_tokens
add_padding_tokens(token_ids, length, right) ==
  LET padding == list_repeat(pad_token_id, length - Len(token_ids))
  IN  IF right THEN token_ids \o padding ELSE padding \o token_ids

RECURSIVE sorted_by_value(_)
\* sorted(d.items(), key=lambda kv: kv[1])
sorted_by_value(d) ==
  IF d = <<>> THEN <<>>
  ELSE LET m == CHOOSE i \in 1..Len(d) : \A j \in 1..Len(d) : d[i][2] <= d[j][2]
       IN  <<d[m]>> \o sorted_by_value([i \in 1..(Len(d) - 1) |->
                                          IF i < m THEN d[i] ELSE d[i + 1]])

RECURSIVE save_loop(_, _, _, _)
\* the loop of save_vocabulary over items from position k on, index being the
\* expected next index and out the file so far: [lines, warned]
save_loop(items, k, index, out) ==
  IF k > Len(items) THEN out
  ELSE LET token == items[k][1]
           token_index == items[k][2]
           gap == index # token_index
       IN  save_loop(items, k + 1, token_index + 1,
                     [lines |-> Append(out.lines, token \o <<"\n">>),
                      warned |-> out.warned \/ gap])

\* save_vocabulary: what is written and whether the warning is logged
save_vocabulary ==
  save_loop(sorted_by_value(vocab), 1, 0, [lines |-> <<>>, warned |-> FALSE])

\* the file name save_vocabulary returns
saved_file_name(isdir) ==
  IF isdir THEN <<"vocab_path/vocab.txt">> ELSE <<"vocab_path">>

\* encode: tokenize, map each token to its id, optionally wrap with special tokens
encode(text, add_special_tokens) ==
  LET tokens == smiles_tokenize(text)
      ids == [i \in 1..Len(tokens) |-> convert_token_to_id(tokens[i])]
  IN  IF add_special_tokens THEN add_special_tokens_ids_single_sequence(ids) ELSE ids

\* decode: map each id to its token, then convert_tokens_to_string
decode(token_ids) ==
  convert_tokens_to_string(
    [i \in 1..Len(token_ids) |-> convert_id_to_token(token_ids[i])])

----------------------------------------------------------------------------
(* Inputs *)

\* the example of the BasicSmilesTokenizer doctest cut after the first "N"
\* of its input: CCC(CC)COC(=O)[C@H](C)N
DocText ==
  <<"C", "C", "C", "(", "C", "C", ")", "C", "O", "C", "(", "=", "O", ")",
    "[", "C", "@", "H", "]", "(", "C", ")", "N">>

DocTokens ==
  <<<<"C">>, <<"C">>, <<"C">>, <<"(">>, <<"C">>, <<"C">>, <<")">>, <<"C">>,
    <<"O">>, <<"C">>, <<"(">>, <<"=">>, <<"O">>, <<")">>,
    <<"[", "C", "@", "H", "]">>, <<"(">>, <<"C">>, <<")">>, <<"N">>>>

\* a fragment of the doctest's molecule that holds a triple bond: [C@](C#N)
DocNitrile == <<"[", "C", "@", "]", "(", "C", "#", "N", ")">>

TextAlphabet ==
  {"[", "]", "B", "r", "C", "l", ">", "%", "1", "#", "\n", "="}

\* the texts given to BasicSmilesTokenizer.tokenize
Texts == SeqsUpTo(TextAlphabet, MaxTextLen) \cup {DocText, DocNitrile}

\* the tokens a line of an enumerated vocabulary file holds
VocabTokens ==
  {pad_token, <<"[", "u", "n", "u", "s", "e", "d", "0", "]">>, unk_token,
   cls_token, sep_token, <<"C">>, <<"[", " ", "#", "#", "]">>}

\* reader.readlines() of a file of these tokens, one per line: every line ends
\* with its line break, the last one only if the file ends with one
readlines(tokens, final_newline) ==
  [i \in 1..Len(tokens) |->
     IF i < Len(tokens) \/ final_newline THEN tokens[i] \o <<"\n">> ELSE tokens[i]]

VocabFiles ==
  {[isfile |-> FALSE, lines |-> <<>>]} \cup
  {[isfile |-> TRUE, lines |-> readlines(tokens, nl)] :
     tokens \in SeqsUpTo(VocabTokens, MaxLines), nl \in BOOLEAN}

\* the texts given to the SmilesTokenizer
SmilesTexts ==
  {<<>>, <<"C">>, <<"C", "C">>, <<"C", "#", "C">>, <<"\n", "#">>,
   <<"\n", "#", "C">>, <<"B", "r">>, <<"[", " ", "#", "#", "]">>, DocNitrile}

\* the tokens given to _convert_token_to_id
LookupTokens == VocabTokens \cup {<<"\n", "#">>, <<"B", "r">>, <<>>}

\* the token lists given to convert_tokens_to_string and
\* add_special_tokens_single_sequence
TokenLists ==
  {<<>>, <<<<"C">>>>, <<<<"C">>, <<"C">>>>, <<<<"C">>, <<"#", "#", "l">>>>,
   <<<<"\n", "#">>, <<"C">>>>, <<<<"[", " ", "#", "#", "]">>>>,
   <<<<"#", "#", "C">>, <<"C">>>>, <<unk_token, <<"C">>>>}

InputIds == {1, 2}

\* the id sequences given to the sequence-assembly helpers
IdSeqs == SeqsUpTo(InputIds, MaxIds) \cup {<<1, 2, 3>>, <<5, 6>>}

ShortIdSeqs == SeqsUpTo(InputIds, 1)

\* the id sequences given to add_padding_tokens
PadIdSeqs == ShortIdSeqs \cup {<<1, 2, 3>>}

PadLengths == (0 - 2)..MaxPadLength

----------------------------------------------------------------------------
(* The state machine *)

Init ==
  /\ vocab_file \in VocabFiles
  /\ status = "new"
  /\ vocab = <<>>
  /\ ids_to_tokens = <<>>
  /\ highest_unused_index = None
  /\ op = "idle"
  /\ args = <<>>
  /\ ret = <<>>
  /\ written = <<>>
  /\ warned = FALSE

\* SmilesTokenizer.__init__
Construct ==
  /\ status = "new"
  /\ IF ~vocab_file.isfile
     THEN /\ status' = "ValueError_no_file"
          /\ UNCHANGED <<vocab, ids_to_tokens, highest_unused_index>>
     ELSE LET d == load_vocab(vocab_file.lines)
              unused == unused_indices(d)
          IN  /\ vocab' = d
              /\ IF max_raises(unused)
                 THEN /\ status' = "ValueError_max_empty"
                      /\ UNCHANGED <<ids_to_tokens, highest_unused_index>>
                 ELSE /\ highest_unused_index' = py_max(unused)
                      /\ ids_to_tokens' = invert_vocab(d)
                      /\ status' = "ready"
  /\ UNCHANGED <<vocab_file, op, args, ret, written, warned>>

\* a call of a method that returns a value and writes nothing
Returns(name, arguments, value) ==
  /\ status = "ready"
  /\ op = "idle"
  /\ op' = name
  /\ args' = arguments
  /\ ret' = value
  /\ UNCHANGED <<tokenizer_state, written, warned>>

VocabSize == Returns("vocab_size", <<>>, vocab_size)

VocabList == Returns("vocab_list", <<>>, vocab_list)

Tokenize(text) == Returns("_tokenize", <<text>>, smiles_tokenize(text))

ConvertTokenToId(token) ==
  Returns("_convert_token_to_id", <<token>>, convert_token_to_id(token))

ConvertIdToToken(index) ==
  Returns("_convert_id_to_token", <<index>>, convert_id_to_token(index))

ConvertTokensToString(tokens) ==
  Returns("convert_tokens_to_string", <<tokens>>, convert_tokens_to_string(tokens))

AddSpecialTokensIdsSingleSequence(token_ids) ==
  Returns("add_special_tokens_ids_single_sequence", <<token_ids>>,
          add_special_tokens_ids_single_sequence(token_ids))

AddSpecialTokensSingleSequence(tokens) ==
  Returns("add_special_tokens_single_sequence", <<tokens>>,
          add_special_tokens_single_sequence(tokens))

AddSpecialTokensIdsSequencePair(token_ids_0, token_ids_1) ==
  Returns("add_special_tokens_ids_sequence_pair", <<token_ids_0, token_ids_1>>,
          add_special_tokens_ids_sequence_pair(token_ids_0, token_ids_1))

AddPaddingTokens(token_ids, length, right) ==
  Returns("add_padding_tokens", <<token_ids, length, right>>,
          add_padding_tokens(token_ids, length, right))

\* decode(encode(text)), the round trip of the public surface
EncodeDecode(text, add_special_tokens) ==
  Returns("decode_encode", <<text, add_special_tokens>>,
          decode(encode(text, add_special_tokens)))

SaveVocabulary(isdir) ==
  /\ status = "ready"
  /\ op = "idle"
  /\ op' = "save_vocabulary"
  /\ args' = <<isdir>>
  /\ ret' = saved_file_name(isdir)
  /\ written' = save_vocabulary.lines
  /\ warned' = save_vocabulary.warned
  /\ UNCHANGED tokenizer_state

\* the caller takes the returned value; the tokenizer is called again
Return ==
  /\ op # "idle"
  /\ op' = "idle"
  /\ args' = <<>>
  /\ ret' = <<>>
  /\ UNCHANGED <<tokenizer_state, written, warned>>

Next ==
  \/ Construct
  \/ VocabSize
  \/ VocabList
  \/ \E text \in SmilesTexts : Tokenize(text)
  \/ \E token \in LookupTokens : ConvertTokenToId(token)
  \/ \E index \in 0..MaxLines : ConvertIdToToken(index)
  \/ \E tokens \in TokenLists : ConvertTokensToString(tokens)
  \/ \E token_ids \in IdSeqs : AddSpecialTokensIdsSingleSequence(token_ids)
  \/ \E tokens \in TokenLists : AddSpecialTokensSingleSequence(tokens)
  \/ \E token_ids_0 \in IdSeqs, token_ids_1 \in ShortIdSeqs :
       AddSpecialTokensIdsSequencePair(token_ids_0, token_ids_1)
  \/ \E token_ids \in PadIdSeqs, length \in PadLengths, right \in BOOLEAN :
       AddPaddingTokens(token_ids, length, right)
  \/ \E text \in SmilesTexts, add_special_tokens \in BOOLEAN :
       EncodeDecode(text, add_special_tokens)
  \/ \E isdir \in BOOLEAN : SaveVocabulary(isdir)
  \/ Return

Spec == Init /\ [][Next]_vars

----------------------------------------------------------------------------
(* BasicSmilesTokenizer on its own: a pure function of the text *)

InitTok ==
  /\ vocab_file = [isfile |-> FALSE, lines |-> <<>>]
  /\ status = "basic"
  /\ vocab = <<>>
  /\ ids_to_tokens = <<>>
  /\ highest_unused_index = None
  /\ op = "idle"
  /\ args = <<>>
  /\ ret = <<>>
  /\ written = <<>>
  /\ warned = FALSE

\* BasicSmilesTokenizer().tokenize(text)
BasicTokenize(text) ==
  /\ status = "basic"
  /\ op = "idle"
  /\ op' = "tokenize"
  /\ args' = <<text>>
  /\ ret' = tokenize(text)
  /\ UNCHANGED <<tokenizer_state, written, warned>>

NextTok ==
  \/ \E text \in Texts : BasicTokenize(text)
  \/ Return

SpecTok == InitTok /\ [][NextTok]_vars

----------------------------------------------------------------------------
(* Properties of BasicSmilesTokenizer.tokenize, checked under SpecTok *)

\* the characters the specification lists as covered by an alternative of their own
CoveredChars ==
  {"B", "C", "N", "O", "S", "P", "F", "I", "b", "c", "n", "o", "s", "p",
   "(", ")", ".", "=", "#", "-", "+", "\\", "/", ":", "~", "@", "?", ">",
   "*", "$"} \cup Digits

\* C1: for every text built only from covered characters, the concatenation of
\* the tokens tokenize returns equals the text: no character is skipped.
C1_ConcatenationIsInput ==
  (op = "tokenize" /\ Range(args[1]) \subseteq CoveredChars)
    => concat(ret) = args[1]

\* the words of the pattern that are a fixed string
FixedWords ==
  {<<"B">>, <<"B", "r">>, <<"C">>, <<"C", "l">>, <<"\n", "#">>, <<">">>,
   <<">", ">">>} \cup
  {<<c>> : c \in (CoveredChars \ {"#", "B", "C", ">"})}

\* w is a word of the pattern: a fixed word, a ring-bond indicator %NN, or a
\* bracket atom "[", one or more characters other than "]", "]"
IsPatternWord(w) ==
  \/ w \in FixedWords
  \/ Len(w) = 3 /\ w[1] = "%" /\ w[2] \in Digits /\ w[3] \in Digits
  \/ /\ Len(w) >= 3
     /\ w[1] = "["
     /\ w[Len(w)] = "]"
     /\ \A i \in 2..(Len(w) - 1) : w[i] # "]"

\* the lengths of the pattern words that start at position q of the text
WordLengths(text, q) ==
  {n \in 1..(Len(text) - q + 1) : IsPatternWord(SubSeq(text, q, q + n - 1))}

SetMin(S) == CHOOSE m \in S : \A x \in S : m <= x

SetMax(S) == CHOOSE m \in S : \A x \in S : x <= m

RECURSIVE IsScan(_, _, _)
\* tokens are the non-overlapping matches of the pattern in the text from
\* position p on, left to right: the next token starts at the first position
\* where a pattern word starts and is the whole unit that starts there (a
\* bracket atom, Br, Cl, >> or %NN is not split), and nothing matches after
\* the last token
IsScan(text, p, tokens) ==
  LET starts == {q \in p..Len(text) : WordLengths(text, q) # {}}
  IN  IF starts = {} THEN tokens = <<>>
      ELSE LET q == SetMin(starts)
               n == SetMax(WordLengths(text, q))
           IN  /\ tokens # <<>>
               /\ tokens[1] = SubSeq(text, q, q + n - 1)
               /\ IsScan(text, q + n, Tail(tokens))

\* C2: tokenize returns, left to right, all non-overlapping matches of the
\* pattern; a bracket atom, Br, Cl, >> and %NN each come out as one token; and
\* the text "CCC(CC)COC(=O)[C@H](C)N" gives the 19 tokens of the example.
C2_LeftToRightMatches ==
  op = "tokenize" =>
    /\ IsScan(args[1], 1, ret)
    /\ (args[1] = DocText => ret = DocTokens)

C2_Witness ==
  /\ op = "tokenize"
  /\ args[1] = DocText
  /\ Len(ret) = 19
  /\ ret[15] = <<"[", "C", "@", "H", "]">>

----------------------------------------------------------------------------
(* Properties of load_vocab and SmilesTokenizer, checked under Spec *)

\* __init__ has run load_vocab on an existing file
Loaded == status \in {"ready", "ValueError_max_empty"}

\* the token of a line: the line without its line break
LineToken(line) ==
  IF line # <<>> /\ line[Len(line)] = "\n" THEN SubSeq(line, 1, Len(line) - 1)
  ELSE line

\* the vocabulary maps token to id
Maps(token, id) == \E j \in 1..Len(vocab) : vocab[j] = <<token, id>>

InVocab(token) == \E j \in 1..Len(vocab) : vocab[j][1] = token

VocabIds == {vocab[j][2] : j \in 1..Len(vocab)}

\* C3 as stated: a file of N lines gives a vocabulary of size N whose ids are
\* exactly 0..N-1.
C3_SizeIsLineCount ==
  Loaded =>
    /\ Len(vocab) = Len(vocab_file.lines)
    /\ VocabIds = 0..(Len(vocab_file.lines) - 1)

\* C3 amended: the vocabulary holds one entry per distinct line, each token
\* mapped to the zero-based index of the last line that holds it; when the N
\* lines are pairwise distinct its size is N and its ids are exactly 0..N-1.
C3_LastLineWins ==
  Loaded =>
    LET lines == vocab_file.lines
        N == Len(lines)
        tokens == {LineToken(lines[i]) : i \in 1..N}
        last(t) == SetMax({i \in 1..N : LineToken(lines[i]) = t})
    IN  /\ Len(vocab) = Cardinality(tokens)
        /\ \A t \in tokens : Maps(t, last(t) - 1)
        /\ Cardinality(tokens) = N => (Len(vocab) = N /\ VocabIds = 0..(N - 1))

C3_Witness ==
  /\ status = "ready"
  /\ Len(vocab_file.lines) = 3
  /\ Len(vocab) = 2
  /\ VocabIds = {1, 2}

\* C4 as stated: _convert_token_to_id returns the id of the token when the
\* vocabulary holds it and the id of the unknown token otherwise: always an
\* integer id.
C4_AlwaysAnId ==
  op = "_convert_token_to_id" =>
    /\ ret \in Nat
    /\ IF InVocab(args[1]) THEN Maps(args[1], ret) ELSE Maps(unk_token, ret)

\* C4 amended: _convert_token_to_id returns the id of the token when the
\* vocabulary holds it; otherwise the id of the unknown token when the
\* vocabulary holds the unknown token, and None when it does not.  It raises
\* in no case.
C4_IdOrUnknownOrNone ==
  op = "_convert_token_to_id" =>
    IF InVocab(args[1]) THEN Maps(args[1], ret)
    ELSE IF InVocab(unk_token) THEN Maps(unk_token, ret)
    ELSE ret = None

C4_Witness ==
  /\ op = "_convert_token_to_id"
  /\ ~InVocab(args[1])
  /\ InVocab(unk_token)
  /\ ret \in Nat
  /\ Maps(unk_token, ret)

\* C5: in every state after construction ids_to_tokens is exactly the inverse
\* of vocab, and _convert_token_to_id(_convert_id_to_token(i)) = i for every
\* id i of the vocabulary.
C5_ReverseIsInverse ==
  status = "ready" =>
    /\ Len(ids_to_tokens) = Len(vocab)
    /\ \A j \in 1..Len(vocab) :
         \E k \in 1..Len(ids_to_tokens) :
           ids_to_tokens[k] = <<vocab[j][2], vocab[j][1]>>
    /\ \A k \in 1..Len(ids_to_tokens) :
         Maps(ids_to_tokens[k][2], ids_to_tokens[k][1])
    /\ \A i \in VocabIds : convert_token_to_id(convert_id_to_token(i)) = i

C5_Witness ==
  /\ status = "ready"
  /\ op = "save_vocabulary"
  /\ Len(vocab) = 2
  /\ Len(vocab_file.lines) = 3
  /\ warned

\* s holds the continuation marker " ##"
HasMarker(s) ==
  \E p \in 1..(Len(s) - 2) : SubSeq(s, p, p + 2) = <<" ", "#", "#">>

\* C6 as stated: decode(encode(text)) is the tokens of tokenize(text) joined
\* by single spaces.
C6_RoundTrip ==
  op = "decode_encode" => ret = str_join(<<" ">>, tokenize(args[1]))

\* C6 amended: without special-token wrapping, decode(encode(text)) is
\* convert_tokens_to_string of the tokens of tokenize(text) with every token
\* the vocabulary does not hold replaced by the unknown token; it is the tokens
\* joined by single spaces when the vocabulary holds every token and the joined
\* string holds no " ##" and neither starts nor ends with white space.
C6_RoundTripKnownTokens ==
  (op = "decode_encode" /\ ~args[2]) =>
    LET tokens == tokenize(args[1])
        seen == [i \in 1..Len(tokens) |->
                   IF InVocab(tokens[i]) THEN tokens[i] ELSE unk_token]
        joined == str_join(<<" ">>, tokens)
    IN  /\ ret = convert_tokens_to_string(seen)
        /\ ( /\ \A i \in 1..Len(tokens) : InVocab(tokens[i])
             /\ ~HasMarker(joined)
             /\ (joined = <<>> \/ ( /\ joined[1] \notin Whitespace
                                    /\ joined[Len(joined)] \notin Whitespace)) )
           => ret = joined

C6_Witness ==
  /\ op = "decode_encode"
  /\ ~args[2]
  /\ args[1] = <<"C", "C">>
  /\ InVocab(<<"C">>)
  /\ ret = <<"C", " ", "C">>

\* C7: for a target length >= len(ids), add_padding_tokens returns a sequence
\* of exactly that length: ids followed by copies of the pad-token id when
\* right is true, copies of the pad-token id followed by ids when it is false;
\* [1,2,3] padded to 5 with pad id 0 is [1,2,3,0,0], and [0,0,1,2,3] on the left.
C7_PadToLength ==
  (op = "add_padding_tokens" /\ args[2] >= Len(args[1])) =>
    LET ids == args[1]
        length == args[2]
        right == args[3]
        fill == length - Len(ids)
    IN  /\ Len(ret) = length
        /\ right => \A i \in 1..length :
                      ret[i] = IF i <= Len(ids) THEN ids[i] ELSE pad_token_id
        /\ ~right => \A i \in 1..length :
                       ret[i] = IF i <= fill THEN pad_token_id ELSE ids[i - fill]
        /\ (ids = <<1, 2, 3>> /\ length = 5 /\ pad_token_id = 0) =>
             ret = IF right THEN <<1, 2, 3, 0, 0>> ELSE <<0, 0, 1, 2, 3>>

C7_Witness ==
  /\ op = "add_padding_tokens"
  /\ args = <<<<1, 2, 3>>, 5, FALSE>>
  /\ Maps(pad_token, 0)
  /\ ret = <<0, 0, 1, 2, 3>>

\* C8: add_special_tokens_ids_single_sequence returns [start id] + ids +
\* [end id], add_special_tokens_ids_sequence_pair returns [start id] + A +
\* [separator id] + B + [separator id], and neither changes its inputs or the
\* state of the tokenizer.
C8_WrapWithSpecialTokens ==
  [][ /\ op' = "add_special_tokens_ids_single_sequence" /\ op = "idle" =>
           /\ \E ids \in IdSeqs :
                /\ args' = <<ids>>
                /\ ret' = <<cls_token_id>> \o ids \o <<sep_token_id>>
           /\ UNCHANGED <<tokenizer_state, written, warned>>
      /\ op' = "add_special_tokens_ids_sequence_pair" /\ op = "idle" =>
           /\ \E A \in IdSeqs, B \in ShortIdSeqs :
                /\ args' = <<A, B>>
                /\ ret' = <<cls_token_id>> \o A \o <<sep_token_id>>
                            \o B \o <<sep_token_id>>
           /\ UNCHANGED <<tokenizer_state, written, warned>> ]_vars

C8_Witness ==
  /\ op = "add_special_tokens_ids_sequence_pair"
  /\ args = <<<<5, 6>>, <<1>>>>
  /\ Maps(cls_token, 0)
  /\ Maps(sep_token, 2)
  /\ ret = <<0, 5, 6, 2, 1, 2>>

IsUnusedToken(token) ==
  /\ Len(token) >= 7
  /\ \A i \in 1..7 : token[i] = <<"[", "u", "n", "u", "s", "e", "d">>[i]

\* C10: on an existing vocabulary file, construction ends in an error and gives
\* no tokenizer when no token of the loaded vocabulary starts with "[unused";
\* it completes only when the vocabulary holds such a token.
C10_NeedsUnusedToken ==
  (status # "new" /\ vocab_file.isfile) =>
    LET some_unused == \E j \in 1..Len(vocab) : IsUnusedToken(vocab[j][1])
    IN  /\ status = "ready" <=> some_unused
        /\ ~some_unused =>
             /\ status = "ValueError_max_empty"
             /\ ids_to_tokens = <<>>
             /\ op = "idle"

C10_Witness ==
  /\ status = "ValueError_max_empty"
  /\ vocab_file.isfile
  /\ Len(vocab) = 3
  /\ InVocab(unk_token)

====
